---- MODULE Spec2Model ----
(***************************************************************************)
(* netwatchd: the concurrent time-bucketed aggregation engine.             *)
(*                                                                         *)
(* One MonitoringData value is shared by three goroutines (capturePackets, *)
(* monitorBandwidth, manageBuckets) and by main, which joins them with a   *)
(* sync.WaitGroup and then calls generateReport.                           *)
(*                                                                         *)
(* Every access to the data happens between data.mu.Lock() and             *)
(* data.mu.Unlock(), so the critical sections exclude one another; each is *)
(* one step here, joined with the steps before it that touch nothing       *)
(* shared (receiving a tick, reading the counters).  Steps that read the   *)
(* context are kept apart from the reads and waits that precede them.      *)
(*                                                                         *)
(* Time is counted in whole seconds since startTime.  The clock visits a   *)
(* grid of instants; a ticker delivers at most one tick per instant and    *)
(* the tick carries the time at which it is received.                      *)
(***************************************************************************)
EXTENDS Integers, Sequences, FiniteSets

VARIABLES
    clock,              \* wall clock, whole seconds since the data was created
    deadline,           \* ctx deadline (context.WithTimeout)
    cancelled,          \* ctx.Done() is closed
    pcMain,             \* position of main
    wg,                 \* sync.WaitGroup counter
    packetBuckets,      \* data.packetBuckets
    bandwidthBuckets,   \* data.bandwidthBuckets
    currentPackets,     \* data.currentPackets
    currentBandwidth,   \* data.currentBandwidth
    startTime,          \* data.startTime
    nextBucketTime,     \* data.nextBucketTime
    pcRot,              \* position of manageBuckets
    rotTick,            \* a tick waits in manageBuckets' ticker.C
    pcCap,              \* position of capturePackets
    proc,               \* the tshark subprocess: none, running, exited, waited
    lines,              \* lines scanner.Scan() has returned so far
    pcBw,               \* position of monitorBandwidth
    query,              \* pdh's package-level query handle (0 = closed)
    sleepUntil,         \* end of monitorBandwidth's settle sleep
    bwTick,             \* a tick waits in monitorBandwidth's ticker.C
    report,             \* what generateReport printed
    hist                \* history of the run, read by the properties only

vars == <<clock, deadline, cancelled, pcMain, wg, packetBuckets,
          bandwidthBuckets, currentPackets, currentBandwidth, startTime,
          nextBucketTime, pcRot, rotTick, pcCap, proc, lines, pcBw,
          query, sleepUntil, bwTick, report, hist>>

dataVars == <<packetBuckets, bandwidthBuckets, currentPackets,
              currentBandwidth, startTime, nextBucketTime>>
rotVars == <<pcRot, rotTick>>
capVars == <<pcCap, proc, lines>>
bwVars == <<pcBw, query, sleepUntil, bwTick>>
ctxVars == <<clock, deadline, cancelled>>

----------------------------------------------------------------------------
(* Bounds and program constants *)

\* steps the clock makes in one run
MaxStep == 5
\* lines the capture worker reads from tshark in one run
MaxLines == 2
\* samples monitorBandwidth records in one run
MaxSamples == 1

\* 1 * time.Minute, in seconds
BucketWidth == 60

\* the clock is observed on every bucket boundary and 35 seconds after it
Instant(k) == (k \div 2) * BucketWidth + (k % 2) * 35
Instants == {Instant(k) : k \in 0..MaxStep}
\* values of the -d flag
Durations == {35, 60, 120}
\* values of the -a flag, and the lists pdh.GetNetworkAdapters() returns when
\* it finds an adapter
AdapterFlags == {"", "eth1"}
AdapterLists == {<<"eth0">>, <<"wifi0", "eth0">>}
\* byte rates one counter reports: value.DoubleValue is any float64, and
\* Counter.GetValue passes it on unchecked
SampleValues == {-1, 1}

----------------------------------------------------------------------------
(* Helpers *)

RECURSIVE SumSeq(_)
SumSeq(s) == IF s = <<>> THEN 0 ELSE s[1] + SumSeq(Tail(s))

IsPrefix(s, t) == Len(s) <= Len(t) /\ SubSeq(t, 1, Len(s)) = s

Sat(n, max) == IF n < max THEN n + 1 ELSE max

----------------------------------------------------------------------------
(* The report: generateReport's loop over the buckets *)

\* a / b rounded to the nearest integer, as %.2f rounds hundredths
RoundDiv(a, b) ==
    IF a >= 0 THEN (2 * a + b) \div (2 * b) ELSE 0 - ((2 * (0 - a) + b) \div (2 * b))

\* bandwidth / (1024 * 1024) printed with %.2f, in hundredths of a MB
BandwidthMB(bandwidth) == RoundDiv(bandwidth * 100, 1024 * 1024)

\* remainingSeconds := int(elapsed.Seconds()) - i*60, i counted from 0
RemainingSeconds(i, elapsed) == elapsed - i * 60

\* the last bucket is printed as a partial bucket when this holds
IsPartialAlways(i, n, elapsed) == i = n - 1
IsPartial(i, n, elapsed) == i = n - 1 /\ RemainingSeconds(i, elapsed) < 60

\* the line printed for bucket i (counted from 0) of n
ReportLine(i, pb, bb, elapsed) ==
    LET packets == pb[i + 1]
        bandwidth == IF i < Len(bb) THEN bb[i + 1] ELSE 0
    IN  IF IsPartial(i, Len(pb), elapsed)
        THEN [label |-> "last", n |-> RemainingSeconds(i, elapsed),
              packets |-> packets, mb |-> BandwidthMB(bandwidth)]
        ELSE [label |-> "minute", n |-> i + 1,
              packets |-> packets, mb |-> BandwidthMB(bandwidth)]

\* if totalPackets > 0: the average line is printed
HasAverageMany(totalPackets) == totalPackets > 1
HasAverage(totalPackets) == totalPackets > 0

\* everything generateReport prints for buckets pb, bb after `elapsed` seconds
ReportOf(pb, bb, elapsed) ==
    LET totalPackets == SumSeq(pb)
        totalBandwidth == SumSeq(bb)
    IN  [printed |-> TRUE,
         elapsed |-> elapsed,
         lines |-> [k \in 1..Len(pb) |-> ReportLine(k - 1, pb, bb, elapsed)],
         totalPackets |-> totalPackets,
         totalMB |-> BandwidthMB(totalBandwidth),
         hasAverage |-> HasAverage(totalPackets),
         average |-> IF HasAverage(totalPackets)
                     THEN RoundDiv(totalBandwidth * 100, totalPackets) ELSE 0]

NoReport ==
    [printed |-> FALSE, elapsed |-> 0, lines |-> <<>>, totalPackets |-> 0,
     totalMB |-> 0, hasAverage |-> FALSE, average |-> 0]

----------------------------------------------------------------------------
(* Initial state: main has built the data and the context *)

NoHist ==
    [recorded |-> 0,        \* executions of data.currentPackets++
     heldEarly |-> FALSE,   \* the line in hand was read before ctx was done
     rotations |-> 0,       \* buckets closed by manageBuckets
     finals |-> 0,          \* runs of generateReport's close-and-append
     rotAfter |-> FALSE,    \* manageBuckets took a tick after cancellation
     bwAfter |-> FALSE,     \* monitorBandwidth took one after cancellation
     failed |-> FALSE,      \* a polling tick failed before any sample was
                            \* recorded since the counter was zero
     oks |-> 0,             \* samples recorded since the counter was zero
     last |-> 0,            \* the first sample recorded since then, if the only one
     samples |-> 0,         \* samples recorded in the run
     capFailed |-> FALSE,   \* capturePackets failed at setup
     bwFailed |-> FALSE,    \* monitorBandwidth failed at setup
     collects |-> 0,        \* calls of pdh.CollectData() so far, up to 2
     strayCounter |-> FALSE] \* with no -a flag, a counter was created on
                            \* an adapter other than the first one listed

Init ==
    /\ clock = 0
    /\ deadline \in Durations
    /\ cancelled = FALSE
    /\ pcMain = "launch"
    /\ wg = 0
    /\ packetBuckets = <<>>
    /\ bandwidthBuckets = <<>>
    /\ currentPackets = 0
    /\ currentBandwidth = 0
    /\ startTime = 0
    /\ nextBucketTime = BucketWidth
    /\ pcRot = "idle"
    /\ rotTick = FALSE
    /\ pcCap = "idle"
    /\ proc = "none"
    /\ lines = 0
    /\ pcBw = "idle"
    /\ query = 0
    /\ sleepUntil = 0
    /\ bwTick = FALSE
    /\ report = NoReport
    /\ hist = NoHist

----------------------------------------------------------------------------
(* The clock and the context *)

\* wall-clock time passes; each running ticker has a tick to deliver.  The
\* context's timer is not late by a whole step of the clock.  The clock is
\* followed until main returns
Advance ==
    /\ pcMain # "done"
    /\ cancelled \/ clock < deadline
    /\ \E t \in Instants : t > clock /\ clock' = t
    /\ rotTick' = (pcRot = "select")
    /\ bwTick' = (pcBw = "select")
    /\ UNCHANGED <<deadline, cancelled, pcMain, wg, dataVars, pcRot, capVars,
                   pcBw, query, sleepUntil, report, hist>>

\* the timer of context.WithTimeout fires
Cancel ==
    /\ ~cancelled
    /\ clock >= deadline
    /\ cancelled' = TRUE
    /\ UNCHANGED <<clock, deadline, pcMain, wg, dataVars, rotVars, capVars,
                   bwVars, report, hist>>

----------------------------------------------------------------------------
(* main *)

\* wg.Wait() returns when the counter is zero
WaitSkipped == TRUE
WaitReturns == wg = 0

\* the three `go func()` statements; the bandwidth worker is started only
\* with -b on Windows
Launch ==
    /\ pcMain = "launch"
    /\ \E enableBandwidth \in BOOLEAN :
          /\ wg' = IF enableBandwidth THEN 3 ELSE 2
          /\ pcBw' = IF enableBandwidth THEN "init" ELSE "off"
    /\ pcCap' = "pipe"
    /\ pcRot' = "ticker"
    /\ pcMain' = "wait"
    /\ UNCHANGED <<ctxVars, dataVars, rotTick, proc, lines, query,
                   sleepUntil, bwTick, report, hist>>

\* wg.Wait()
Wait ==
    /\ pcMain = "wait"
    /\ WaitReturns
    /\ pcMain' = "report"
    /\ UNCHANGED <<ctxVars, wg, dataVars, rotVars, capVars, bwVars, report,
                   hist>>

\* the buckets after generateReport's two appends
FinalSkipEmpty(buckets, current) ==
    IF current = 0 THEN buckets ELSE Append(buckets, current)
FinalBuckets(buckets, current) == Append(buckets, current)

\* generateReport, under data.mu from its first line to its return
GenerateReport ==
    /\ pcMain = "report"
    /\ packetBuckets' = FinalBuckets(packetBuckets, currentPackets)
    /\ bandwidthBuckets' = FinalBuckets(bandwidthBuckets, currentBandwidth)
    /\ report' = ReportOf(packetBuckets', bandwidthBuckets', clock - startTime)
    /\ pcMain' = "done"
    /\ hist' = [hist EXCEPT !.finals = @ + 1]
    /\ UNCHANGED <<ctxVars, wg, currentPackets, currentBandwidth, startTime,
                   nextBucketTime, rotVars, capVars, bwVars>>

----------------------------------------------------------------------------
(* manageBuckets *)

\* time.Time.After
AfterLate(t, u) == t > u + BucketWidth
AfterEarly(t, u) == t + BucketWidth > u
After(t, u) == t > u

\* ticker := time.NewTicker(1 * time.Second); its first tick is a second away
RotNewTicker ==
    /\ pcRot = "ticker"
    /\ rotTick' = FALSE
    /\ pcRot' = "select"
    /\ UNCHANGED <<ctxVars, pcMain, wg, dataVars, capVars, bwVars, report,
                   hist>>

\* case <-ctx.Done(): return   (deferred ticker.Stop and wg.Done)
RotDone ==
    /\ pcRot = "select"
    /\ cancelled
    /\ pcRot' = "done"
    /\ rotTick' = FALSE
    /\ wg' = wg - 1
    /\ UNCHANGED <<ctxVars, pcMain, dataVars, capVars, bwVars, report, hist>>

\* the body of `if now.After(data.nextBucketTime)`
RotateLosing(now) ==
    /\ packetBuckets' = Append(packetBuckets, 0)
    /\ bandwidthBuckets' = Append(bandwidthBuckets, currentBandwidth)
    /\ currentPackets' = 0
    /\ currentBandwidth' = 0
    /\ nextBucketTime' = nextBucketTime + BucketWidth
RotateKeepBoundary(now) ==
    /\ packetBuckets' = Append(packetBuckets, currentPackets)
    /\ bandwidthBuckets' = Append(bandwidthBuckets, currentBandwidth)
    /\ currentPackets' = 0
    /\ currentBandwidth' = 0
    /\ nextBucketTime' = nextBucketTime
RotatePacketsOnly(now) ==
    /\ packetBuckets' = Append(packetBuckets, currentPackets)
    /\ bandwidthBuckets' = bandwidthBuckets
    /\ currentPackets' = 0
    /\ currentBandwidth' = 0
    /\ nextBucketTime' = nextBucketTime + BucketWidth
Rotate(now) ==
    /\ packetBuckets' = Append(packetBuckets, currentPackets)
    /\ bandwidthBuckets' = Append(bandwidthBuckets, currentBandwidth)
    /\ currentPackets' = 0
    /\ currentBandwidth' = 0
    /\ nextBucketTime' = nextBucketTime + BucketWidth

\* case now := <-ticker.C: lock, rotate if now is after the boundary, unlock
RotTick ==
    /\ pcRot = "select"
    /\ rotTick
    /\ rotTick' = FALSE
    /\ LET now == clock
       IN  IF After(now, nextBucketTime)
           THEN /\ Rotate(now)
                /\ hist' = [hist EXCEPT
                              !.rotations = @ + 1, !.failed = FALSE,
                              !.oks = 0, !.last = 0,
                              !.rotAfter = @ \/ cancelled]
           ELSE /\ UNCHANGED <<packetBuckets, bandwidthBuckets,
                               currentPackets, currentBandwidth,
                               nextBucketTime>>
                /\ hist' = [hist EXCEPT
                              !.rotAfter = @ \/ cancelled]
    /\ UNCHANGED <<ctxVars, pcMain, wg, startTime, pcRot, capVars, bwVars,
                   report>>

----------------------------------------------------------------------------
(* capturePackets and the tshark subprocess *)

\* cmd.StdoutPipe() fails: the worker prints the error and returns
CapPipeFail ==
    /\ pcCap = "pipe"
    /\ pcCap' = "done"
    /\ wg' = wg - 1
    /\ hist' = [hist EXCEPT !.capFailed = TRUE]
    /\ UNCHANGED <<ctxVars, pcMain, dataVars, rotVars, proc, lines,
                   bwVars, report>>

\* cmd.StdoutPipe() succeeds
CapPipe ==
    /\ pcCap = "pipe"
    /\ pcCap' = "start"
    /\ UNCHANGED <<ctxVars, pcMain, wg, dataVars, rotVars, proc, lines, bwVars, report, hist>>

CapStartFailNoDone ==
    /\ pcCap = "start"
    /\ pcCap' = "done"
    /\ hist' = [hist EXCEPT !.capFailed = TRUE]
    /\ UNCHANGED <<ctxVars, pcMain, wg, dataVars, rotVars, proc, lines,
                   bwVars, report>>

\* cmd.Start() fails: the worker prints the error and returns
CapStartFail ==
    /\ pcCap = "start"
    /\ pcCap' = "done"
    /\ wg' = wg - 1
    /\ hist' = [hist EXCEPT !.capFailed = TRUE]
    /\ UNCHANGED <<ctxVars, pcMain, dataVars, rotVars, proc, lines,
                   bwVars, report>>

\* cmd.Start() succeeds (it fails when ctx is already done);
\* scanner := bufio.NewScanner(stdout)
CapStart ==
    /\ pcCap = "start"
    /\ ~cancelled
    /\ proc' = "running"
    /\ pcCap' = "scan"
    /\ UNCHANGED <<ctxVars, pcMain, wg, dataVars, rotVars, lines,
                   bwVars, report, hist>>

\* tshark exits by itself
TsharkExit ==
    /\ proc = "running"
    /\ ~cancelled
    /\ proc' = "exited"
    /\ UNCHANGED <<ctxVars, pcMain, wg, dataVars, rotVars, pcCap, lines, bwVars, report, hist>>

\* exec.CommandContext kills the subprocess once ctx is done
TsharkKill ==
    /\ proc = "running"
    /\ cancelled
    /\ proc' = "exited"
    /\ UNCHANGED <<ctxVars, pcMain, wg, dataVars, rotVars, pcCap, lines, bwVars, report, hist>>

\* scanner.Scan() returns true; line := scanner.Text().  The line is one
\* tshark wrote while it ran; it may be read after tshark is gone
CapScanLine ==
    /\ pcCap = "scan"
    /\ lines < MaxLines
    /\ lines' = lines + 1
    /\ pcCap' = "select"
    /\ hist' = [hist EXCEPT !.heldEarly = ~cancelled]
    /\ UNCHANGED <<ctxVars, pcMain, wg, dataVars, rotVars, proc, bwVars,
                   report>>

\* scanner.Scan() returns false: the stream has ended; cmd.Wait(); return
CapScanEnd ==
    /\ pcCap = "scan"
    /\ proc = "exited"
    /\ proc' = "waited"
    /\ pcCap' = "done"
    /\ wg' = wg - 1
    /\ UNCHANGED <<ctxVars, pcMain, dataVars, rotVars, lines, bwVars,
                   report, hist>>

\* select { case <-ctx.Done(): return }
CapSelectDone ==
    /\ pcCap = "select"
    /\ cancelled
    /\ pcCap' = "done"
    /\ wg' = wg - 1
    /\ hist' = [hist EXCEPT !.heldEarly = FALSE]
    /\ UNCHANGED <<ctxVars, pcMain, dataVars, rotVars, proc, lines,
                   bwVars, report>>

\* select { default: } prints the line; lock, data.currentPackets++, unlock
CapSelectDefault ==
    /\ pcCap = "select"
    /\ ~cancelled
    /\ currentPackets' = currentPackets + 1
    /\ pcCap' = "scan"
    /\ hist' = [hist EXCEPT !.recorded = @ + 1, !.heldEarly = FALSE]
    /\ UNCHANGED <<ctxVars, pcMain, wg, packetBuckets, bandwidthBuckets,
                   currentBandwidth, startTime, nextBucketTime, rotVars,
                   proc, lines, bwVars, report>>

----------------------------------------------------------------------------
(* monitorBandwidth and package pdh *)

\* what a PDH call returns: 0, PDH_INVALID_DATA, or another error code
PdhRets == {"ok", "invalid", "err"}

\* pdh.CollectData: an error when the query is closed, or unless the code
\* is 0 or PDH_INVALID_DATA
CollectData(ret) == [err |-> query = 0 \/ ret = "err"]

\* Counter.GetValue: (0, err) on an error code, else (value.DoubleValue, nil)
\* with v whatever the call left in value, PDH_INVALID_DATA included
GetValue(ret, v) ==
    IF ret = "err" THEN [value |-> 0, err |-> TRUE]
    ELSE [value |-> v, err |-> FALSE]

\* if err1 == nil && err2 == nil
EitherRead(sent, recv) == ~sent.err \/ ~recv.err
BothRead(sent, recv) == ~sent.err /\ ~recv.err

\* pdh.Initialize() fails: the worker prints the error and returns
BwInitFail ==
    /\ pcBw = "init"
    /\ pcBw' = "done"
    /\ wg' = wg - 1
    /\ hist' = [hist EXCEPT !.bwFailed = TRUE]
    /\ UNCHANGED <<ctxVars, pcMain, dataVars, rotVars, capVars, query,
                   sleepUntil, bwTick, report>>

\* pdh.Initialize() opens the query
BwInit ==
    /\ pcBw = "init"
    /\ query' = 1
    /\ pcBw' = "counters"
    /\ UNCHANGED <<ctxVars, pcMain, wg, dataVars, rotVars, capVars,
                   sleepUntil, bwTick, report, hist>>

\* a setup call after pdh.Initialize fails: the worker prints the error,
\* runs the deferred pdh.Cleanup() and returns
BwSetupFail ==
    /\ pcBw = "counters"
    /\ query' = 0
    /\ pcBw' = "done"
    /\ wg' = wg - 1
    /\ hist' = [hist EXCEPT !.bwFailed = TRUE]
    /\ UNCHANGED <<ctxVars, pcMain, dataVars, rotVars, capVars, sleepUntil,
                   bwTick, report>>

\* adapterName == "" and GetNetworkAdapters fails or returns no adapter
BwAdaptersFail == BwSetupFail

\* pdh.NewCounter(adapterName, "Bytes Sent/sec") fails
BwSentFail == BwSetupFail

\* pdh.NewCounter(adapterName, "Bytes Received/sec") fails
BwRecvFail == BwSetupFail

\* if adapterName == "" { ...; adapterName = adapters[0] }
ChooseLast(adapterName, adapters) ==
    IF adapterName = "" THEN adapters[Len(adapters)] ELSE adapterName
ChooseAdapter(adapterName, adapters) ==
    IF adapterName = "" THEN adapters[1] ELSE adapterName

\* pdh.NewCounter: the counter added to the query, by the parts of its path
\* \Network Interface(adapterName)\counterName
NewCounter(adapterName, counterName) ==
    [adapter |-> adapterName, counter |-> counterName]

\* as BwInitialCollect, with the reading of the initial collection added
BwInitialCollectRecorded ==
    /\ pcBw = "counters"
    /\ \E t \in Instants : t > clock
    /\ \E adapterFlag \in AdapterFlags, adapters \in AdapterLists :
          LET adapterName == ChooseAdapter(adapterFlag, adapters)
              sentCounter == NewCounter(adapterName, "Bytes Sent/sec")
              recvCounter == NewCounter(adapterName, "Bytes Received/sec")
          IN  hist' = [hist EXCEPT !.strayCounter =
                         /\ adapterFlag = ""
                         /\ \/ sentCounter.adapter # adapters[1]
                            \/ recvCounter.adapter # adapters[1],
                               !.collects = 1,
                               !.samples = @ + 1]
    /\ sleepUntil' = clock + 1
    /\ pcBw' = "sleep"
    /\ currentBandwidth' = currentBandwidth + 2
    /\ UNCHANGED <<ctxVars, pcMain, wg, packetBuckets, bandwidthBuckets,
                   currentPackets, startTime, nextBucketTime, rotVars,
                   capVars, query, bwTick, report>>

\* the adapter is chosen, both counters are created, the initial
\* pdh.CollectData() is made and its result dropped; time.Sleep begins
\* (while the clock can still reach the end of the sleep)
BwInitialCollect ==
    /\ pcBw = "counters"
    /\ \E t \in Instants : t > clock
    /\ \E adapterFlag \in AdapterFlags, adapters \in AdapterLists :
          LET adapterName == ChooseAdapter(adapterFlag, adapters)
              sentCounter == NewCounter(adapterName, "Bytes Sent/sec")
              recvCounter == NewCounter(adapterName, "Bytes Received/sec")
          IN  hist' = [hist EXCEPT !.strayCounter =
                         /\ adapterFlag = ""
                         /\ \/ sentCounter.adapter # adapters[1]
                            \/ recvCounter.adapter # adapters[1],
                               !.collects = 1]
    /\ sleepUntil' = clock + 1
    /\ pcBw' = "sleep"
    /\ UNCHANGED <<ctxVars, pcMain, wg, dataVars, rotVars, capVars, query,
                   bwTick, report>>

\* time.Sleep(1 * time.Second) returns; ticker := time.NewTicker(...)
BwWake ==
    /\ pcBw = "sleep"
    /\ clock >= sleepUntil
    /\ sleepUntil' = 0
    /\ bwTick' = FALSE
    /\ pcBw' = "select"
    /\ UNCHANGED <<ctxVars, pcMain, wg, dataVars, rotVars, capVars, query,
                   report, hist>>

\* case <-ctx.Done(): return   (deferred ticker.Stop, Close, pdh.Cleanup)
BwDone ==
    /\ pcBw = "select"
    /\ cancelled
    /\ query' = 0
    /\ bwTick' = FALSE
    /\ pcBw' = "done"
    /\ wg' = wg - 1
    /\ UNCHANGED <<ctxVars, pcMain, dataVars, rotVars, capVars, sleepUntil,
                   report, hist>>

\* case <-ticker.C with a failed pdh.CollectData(): continue
BwTickCollectFail ==
    /\ pcBw = "select"
    /\ bwTick
    /\ bwTick' = FALSE
    /\ \E ret \in PdhRets : CollectData(ret).err
    /\ hist' = [hist EXCEPT !.failed = @ \/ hist.oks = 0,
                            !.collects = 2,
                            !.bwAfter = @ \/ cancelled]
    /\ UNCHANGED <<ctxVars, pcMain, wg, dataVars, rotVars, capVars, pcBw,
                   query, sleepUntil, report>>

\* case <-ticker.C: collect, read both counters, and when both reads
\* succeed lock, data.currentBandwidth += totalBytes, unlock
BwTick ==
    /\ pcBw = "select"
    /\ bwTick
    /\ bwTick' = FALSE
    /\ \E ret \in PdhRets, r1 \in PdhRets, r2 \in PdhRets,
          v1 \in SampleValues, v2 \in SampleValues :
          LET sent == GetValue(r1, v1)
              recv == GetValue(r2, v2)
              totalBytes == sent.value + recv.value
              good == ~sent.err /\ ~recv.err
          IN  /\ ~CollectData(ret).err
              /\ IF BothRead(sent, recv)
                 THEN /\ good => hist.samples < MaxSamples
                      /\ currentBandwidth' = currentBandwidth + totalBytes
                 ELSE /\ currentBandwidth' = currentBandwidth
              /\ hist' = IF good
                         THEN [hist EXCEPT
                                 !.oks = Sat(@, 2),
                                 !.last = IF hist.oks = 0
                                          THEN totalBytes ELSE 0,
                                 !.samples = @ + 1,
                                 !.collects = 2,
                                 !.bwAfter = @ \/ cancelled]
                         ELSE [hist EXCEPT !.failed = @ \/ hist.oks = 0,
                                           !.collects = 2,
                                           !.bwAfter = @ \/ cancelled]
    /\ UNCHANGED <<ctxVars, pcMain, wg, packetBuckets, bandwidthBuckets,
                   currentPackets, startTime, nextBucketTime, rotVars,
                   capVars, pcBw, query, sleepUntil, report>>

----------------------------------------------------------------------------
(* Specifications *)

MainNext == Launch \/ Wait \/ GenerateReport

RotNext == RotNewTicker \/ RotDone \/ RotTick

CapNext ==
    \/ CapPipeFail \/ CapPipe \/ CapStartFail \/ CapStart
    \/ TsharkExit \/ TsharkKill \/ CapScanLine \/ CapScanEnd
    \/ CapSelectDone \/ CapSelectDefault

BwNext ==
    \/ BwInitFail \/ BwInit \/ BwAdaptersFail \/ BwSentFail \/ BwRecvFail
    \/ BwInitialCollect \/ BwWake \/ BwDone \/ BwTickCollectFail \/ BwTick

Next == Advance \/ Cancel \/ MainNext \/ RotNext \/ CapNext \/ BwNext

Spec == Init /\ [][Next]_vars

\* Scheduling: goroutines that can run do run, timers fire, time passes, a
\* select whose ctx.Done() case is ready takes it in the end (the choice
\* among ready cases is uniformly random), and exec.CommandContext kills the
\* subprocess once the context is done.  No line need ever arrive.
Fairness ==
    /\ WF_vars(Advance)
    /\ WF_vars(Cancel)
    /\ WF_vars(MainNext)
    /\ WF_vars(RotNewTicker \/ RotDone)
    /\ WF_vars(TsharkKill)
    /\ WF_vars(\/ CapPipeFail \/ CapPipe \/ CapStartFail \/ CapStart
               \/ CapScanEnd \/ CapSelectDone \/ CapSelectDefault)
    /\ WF_vars(\/ BwInitFail \/ BwInit \/ BwSetupFail \/ BwInitialCollect
               \/ BwWake \/ BwDone)

FairSpec == Init /\ [][Next]_vars /\ Fairness

\* Scheduling of manageBuckets alone: the goroutine runs, and a select whose
\* only ready case is the tick takes it.  Nothing is assumed of the clock,
\* the context's timer or the other workers.
TickFairness ==
    /\ WF_vars(RotNewTicker)
    /\ WF_vars(RotTick)

TickSpec == Init /\ [][Next]_vars /\ TickFairness

----------------------------------------------------------------------------
(* Properties *)

WorkersStopped ==
    pcCap = "done" /\ pcRot = "done" /\ pcBw \in {"done", "off"}

\* manageBuckets handles a tick in this step
RotTickStep ==
    pcRot = "select" /\ pcRot' = "select" /\ rotTick /\ ~rotTick'

\* a bucket boundary has passed and its bucket is still open
Behind == clock > nextBucketTime

\* monitorBandwidth handles a tick in this step
BwTickStep ==
    pcBw = "select" /\ pcBw' = "select" /\ bwTick /\ ~bwTick'

\* C1: the packet counts of all buckets, plus the open counter until the
\* report closes it, add up to the number of increments made; once the
\* report is done the buckets alone add up to it.
C1_SumEqualsRecorded ==
    IF pcMain = "done"
    THEN SumSeq(packetBuckets) = hist.recorded
    ELSE SumSeq(packetBuckets) + currentPackets = hist.recorded

C1_Witness ==
    /\ pcMain = "done"
    /\ hist.recorded = 2
    /\ hist.rotations >= 1
    /\ packetBuckets[1] = 1

\* C2: the two bucket sequences always have the same length, and every step
\* leaves the earlier sequences as prefixes of the later ones.
C2_AlignedAppendOnly ==
    /\ [](Len(packetBuckets) = Len(bandwidthBuckets))
    /\ [][/\ IsPrefix(packetBuckets, packetBuckets')
          /\ IsPrefix(bandwidthBuckets, bandwidthBuckets')]_vars

C2_Witness ==
    /\ Len(packetBuckets) = 3
    /\ Len(bandwidthBuckets) = 3
    /\ packetBuckets[2] > 0

\* C3 (as claimed): a rotation step whose `now` is K - 1 whole widths past
\* nextBucketTime, K >= 1, appends K buckets and leaves nextBucketTime one
\* width after `now`.
C3_CatchesUpKBuckets ==
    [][(/\ RotTickStep
        /\ clock >= nextBucketTime
        /\ (clock - nextBucketTime) % BucketWidth = 0)
       => LET K == (clock - nextBucketTime) \div BucketWidth + 1
          IN  /\ Len(packetBuckets') = Len(packetBuckets) + K
              /\ Len(bandwidthBuckets') = Len(bandwidthBuckets) + K
              /\ nextBucketTime' = clock + BucketWidth]_vars

\* C4: the report closes exactly one bucket, holding the open counters, so
\* that the buckets number one more than the rotations; before the report
\* they number the rotations.
C4_OneFinalBucket ==
    IF pcMain = "done"
    THEN /\ hist.finals = 1
         /\ Len(packetBuckets) = hist.rotations + 1
         /\ Len(bandwidthBuckets) = hist.rotations + 1
         /\ packetBuckets[Len(packetBuckets)] = currentPackets
         /\ bandwidthBuckets[Len(bandwidthBuckets)] = currentBandwidth
    ELSE /\ hist.finals = 0
         /\ Len(packetBuckets) = hist.rotations
         /\ Len(bandwidthBuckets) = hist.rotations

C4_Witness ==
    /\ pcMain = "done"
    /\ hist.rotations = 0
    /\ clock < BucketWidth
    /\ packetBuckets = <<0>>
    /\ bandwidthBuckets = <<0>>

\* C5: generateReport starts only when every launched worker has returned.
C5_ReportAfterWorkers ==
    pcMain \in {"report", "done"} => WorkersStopped

C5_Witness ==
    /\ pcMain = "report"
    /\ pcBw = "done"
    /\ hist.recorded > 0
    /\ hist.samples > 0
    /\ hist.rotations > 0

\* C6 (as claimed, its safety part): after cancellation manageBuckets and
\* monitorBandwidth each handle at most one further tick.
C6_AtMostOneTickAfterCancel ==
    [][/\ (RotTickStep /\ cancelled) => ~hist.rotAfter
       /\ (BwTickStep /\ cancelled) => ~hist.bwAfter]_vars

\* The liveness part of C6: once the context is cancelled every worker
\* returns and the report is printed.
CancelledLeadsToReport ==
    cancelled ~> (WorkersStopped /\ report.printed)

\* C7: once a worker has failed at setup the report is still printed in the
\* end, and the workers that did not fail return only on cancellation (the
\* capture worker also when its stream ends).
C7_FailureDoesNotAbort ==
    /\ ((hist.capFailed \/ hist.bwFailed) ~> report.printed)
    /\ [](pcRot = "done" => cancelled)
    /\ []((pcBw = "done" /\ ~hist.bwFailed) => cancelled)
    /\ []((pcCap = "done" /\ ~hist.capFailed)
            => (cancelled \/ proc = "waited"))

C7_Witness ==
    /\ hist.capFailed
    /\ hist.bwFailed
    /\ report.printed
    /\ hist.rotations > 0

\* C8: failed ticks add nothing: when exactly one sample has been recorded
\* since the counter was last zeroed, however many ticks failed before it,
\* the counter equals that sample; and a failed tick does not end the loop.
C8_FailedTicksAddNothing ==
    /\ hist.oks = 0 => currentBandwidth = 0
    /\ hist.oks = 1 => currentBandwidth = hist.last
    /\ (hist.failed /\ pcBw = "done") => cancelled

C8_Witness ==
    /\ hist.failed
    /\ hist.oks = 1
    /\ hist.last = 2
    /\ currentBandwidth = 2
    /\ hist.rotations = 0

\* C9 (as claimed): the last bucket is labelled "last N seconds" with N the
\* elapsed seconds modulo the width, every other bucket "minute i+1".
C9_LastLabelIsModulo ==
    report.printed =>
        \A k \in 1..Len(report.lines) :
            IF k = Len(report.lines)
            THEN /\ report.lines[k].label = "last"
                 /\ report.lines[k].n = report.elapsed % BucketWidth
            ELSE /\ report.lines[k].label = "minute"
                 /\ report.lines[k].n = k

\* C9 (amended): with N the elapsed seconds minus 60 for every bucket before
\* the last, the last bucket is labelled "last N seconds" when N < 60 and
\* "minute i+1" otherwise; every other bucket is labelled "minute i+1"; each
\* line carries its bucket's packet count.
C9_LastLabelIsDifference ==
    report.printed =>
        /\ Len(report.lines) = Len(packetBuckets)
        /\ \A k \in 1..Len(report.lines) :
              LET N == report.elapsed - BucketWidth * (k - 1)
              IN  /\ report.lines[k].packets = packetBuckets[k]
                  /\ IF k = Len(report.lines) /\ N < BucketWidth
                     THEN /\ report.lines[k].label = "last"
                          /\ report.lines[k].n = N
                     ELSE /\ report.lines[k].label = "minute"
                          /\ report.lines[k].n = k

C9_Witness ==
    /\ report.printed
    /\ report.elapsed = 95
    /\ Len(report.lines) = 2
    /\ report.lines[1] = [label |-> "minute", n |-> 1, packets |-> 1, mb |-> 0]
    /\ report.lines[2] = [label |-> "last", n |-> 35, packets |-> 1, mb |-> 0]

\* C10 (as claimed): a line scanner.Scan() returned before the context was
\* cancelled is counted by the step that leaves the select statement.
C10_ReadLineIsRecorded ==
    [][(pcCap = "select" /\ hist.heldEarly /\ pcCap' # "select")
         => currentPackets' = currentPackets + 1]_vars

\* C11 (as claimed): the accumulated bandwidth and every closed bandwidth
\* bucket are never negative, and a polling tick never lowers the counter.
C11_BandwidthNeverNegative ==
    /\ [](currentBandwidth >= 0)
    /\ [](\A k \in 1..Len(bandwidthBuckets) : bandwidthBuckets[k] >= 0)
    /\ [][BwTickStep => currentBandwidth' >= currentBandwidth]_vars

\* C12: the average line is printed exactly when the packet counts of all
\* buckets, the final one included, sum to more than zero; its value is the
\* sum of all bandwidth buckets divided by that sum, to the nearest
\* hundredth (100 packets and 204800 bytes give 2048.00).
C12_AverageIffPackets ==
    /\ report.printed =>
          LET tp == SumSeq(packetBuckets)
              tb == SumSeq(bandwidthBuckets)
              d == 100 * tb - report.average * tp
          IN  /\ report.totalPackets = tp
              /\ report.hasAverage <=> tp > 0
              /\ tp > 0 => 2 * (IF d >= 0 THEN d ELSE 0 - d) <= tp
              /\ tp = 0 => report.average = 0
    /\ ReportOf(<<100>>, <<204800>>, 30).hasAverage
    /\ ReportOf(<<100>>, <<204800>>, 30).average = 204800

C12_Witness ==
    /\ report.printed
    /\ report.hasAverage
    /\ Len(report.lines) = 2
    /\ report.lines[1].packets = 1
    /\ report.totalPackets = 2
    /\ report.average = 100

\* C13: rotation does not depend on traffic.  While the run is not cancelled,
\* a tick delivered to manageBuckets after a boundary has passed is handled
\* in the end; every tick handled after a passed boundary closes one bucket,
\* whatever the counters hold, and moves the boundary one width on, so the
\* ticks that follow a delay catch up one width each.
C13_PassedBoundaryIsClosed ==
    /\ (Behind /\ ~cancelled /\ pcRot = "select" /\ rotTick)
          ~> (cancelled \/ ~rotTick)
    /\ [][(RotTickStep /\ Behind)
            => /\ Len(packetBuckets') = Len(packetBuckets) + 1
               /\ nextBucketTime' = nextBucketTime + BucketWidth]_vars

C13_Witness ==
    /\ ~cancelled
    /\ hist.recorded = 0
    /\ hist.samples = 0
    /\ packetBuckets = <<0, 0>>
    /\ bandwidthBuckets = <<0, 0>>
    /\ ~Behind

\* C14 (as claimed): a rotation step whose `now` equals nextBucketTime closes
\* the open bucket, and after every rotation step nextBucketTime is strictly
\* later than the step's `now`.
C14_AtOrPastCloses ==
    [][RotTickStep =>
         /\ clock = nextBucketTime =>
               /\ packetBuckets' = Append(packetBuckets, currentPackets)
               /\ bandwidthBuckets' = Append(bandwidthBuckets, currentBandwidth)
               /\ currentPackets' = 0
               /\ currentBandwidth' = 0
               /\ nextBucketTime' = nextBucketTime + BucketWidth
         /\ nextBucketTime' > clock]_vars

\* C15: startTime never changes; nextBucketTime changes only in a rotation
\* step, by one width, together with one append to each sequence and the
\* reset of both counters; until the report closes the last bucket,
\* nextBucketTime is the initial boundary plus one width per closed bucket.
C15_BoundaryFrame ==
    /\ [][startTime' = startTime]_vars
    /\ [][nextBucketTime' # nextBucketTime =>
            /\ RotTickStep
            /\ nextBucketTime' = nextBucketTime + BucketWidth
            /\ packetBuckets' = Append(packetBuckets, currentPackets)
            /\ bandwidthBuckets' = Append(bandwidthBuckets, currentBandwidth)
            /\ currentPackets' = 0
            /\ currentBandwidth' = 0]_vars
    /\ [](pcMain # "done" =>
            nextBucketTime =
                startTime + BucketWidth + BucketWidth * Len(packetBuckets))
    /\ [](pcMain = "done" =>
            nextBucketTime = startTime + BucketWidth * Len(packetBuckets))

C15_Witness ==
    /\ pcMain = "done"
    /\ hist.rotations = 2
    /\ hist.recorded > 0
    /\ hist.samples > 0
    /\ nextBucketTime = 3 * BucketWidth

\* C16: a bandwidth worker that failed at setup has returned without adding
\* a sample, so the counter and every bandwidth bucket are zero, while the
\* packet counts still add up to the increments made; and with no adapter
\* configured both counters are created on the first adapter listed.
C16_SetupFailureLeavesZero ==
    /\ hist.bwFailed =>
          /\ pcBw = "done"
          /\ hist.samples = 0
          /\ currentBandwidth = 0
          /\ \A k \in 1..Len(bandwidthBuckets) : bandwidthBuckets[k] = 0
          /\ SumSeq(packetBuckets)
               + (IF pcMain = "done" THEN 0 ELSE currentPackets)
                 = hist.recorded
    /\ ~hist.strayCounter

C16_Witness ==
    /\ hist.bwFailed
    /\ report.printed
    /\ Len(bandwidthBuckets) = 2
    /\ packetBuckets = <<1, 1>>
    /\ report.totalMB = 0

\* C17: nothing is added to the bandwidth counter before the settle sleep
\* has ended, and every sample recorded follows at least the second call of
\* pdh.CollectData() on the session.
C17_FirstCollectionDiscarded ==
    /\ hist.samples > 0 => hist.collects >= 2
    /\ pcBw \in {"idle", "init", "counters", "sleep"} =>
          /\ hist.samples = 0
          /\ currentBandwidth = 0
          /\ \A k \in 1..Len(bandwidthBuckets) : bandwidthBuckets[k] = 0
    /\ pcBw = "sleep" => hist.collects = 1

C17_Witness ==
    /\ hist.samples = 1
    /\ hist.collects = 2
    /\ currentBandwidth = 2
    /\ pcBw = "select"

\* C18 (as claimed): a capture worker that has returned has waited for the
\* subprocess it started, and a bandwidth worker that has returned has closed
\* the query it opened.
C18_ResourcesReleased ==
    /\ pcCap = "done" => proc \in {"none", "waited"}
    /\ pcBw = "done" => query = 0

\* The bandwidth worker's part of C18, which the code keeps.
QueryClosedOnReturn ==
    pcBw = "done" => query = 0

\* C19: until the report closes the last bucket the closed buckets number at
\* most the whole widths elapsed since startTime; so in the report the last
\* bucket's remaining seconds are never negative, and a "last N seconds"
\* label has 0 <= N < 60.
C19_RemainingSecondsInRange ==
    /\ pcMain # "done" =>
          Len(packetBuckets) * BucketWidth <= clock - startTime
    /\ report.printed =>
          /\ RemainingSeconds(Len(report.lines) - 1, report.elapsed) >= 0
          /\ \A k \in 1..Len(report.lines) :
                report.lines[k].label = "last" =>
                    /\ report.lines[k].n >= 0
                    /\ report.lines[k].n < BucketWidth

C19_Witness ==
    /\ report.printed
    /\ report.elapsed = 155
    /\ Len(report.lines) = 3
    /\ report.lines[3].label = "last"
    /\ report.lines[3].n = 35

====
